---- MODULE Spec2Model ----
(***************************************************************************)
(* Expression-to-SlithIR lowering (slither/visitors/slithir/                *)
(* expression_to_slithir.py).  One behaviour of the model is the lowering   *)
(* of one statement: the post-order walk of ExpressionVisitor runs one      *)
(* _post_* handler per step, the tail of the constructor appends the Return *)
(* and sets the owning node, and result() hands the list to the caller.     *)
(***************************************************************************)
EXTENDS Integers, Sequences, FiniteSets, TLC

\* ------------------------------------------------------------------ bounds
\* integer literals of the lowered statements are 1..MaxLit
MaxLit == 2
\* a tuple of assignment targets has 2..MaxTargets slots
MaxTargets == 3
\* a call has 0..MaxArgs arguments
MaxArgs == 2

\* ------------------------------------------------------- IR values (§3)
\* Python's None (a discarded tuple slot, an unset modifier, an unset type)
None == [k |-> "None"]

LocalVariable(n, t) == [k |-> "LocalVariable", name |-> n, type |-> t]

\* tuple_index is -1 when the attribute is None
LocalVariableInitFromTuple(n, t, i) ==
    [k |-> "LocalVariableInitFromTuple", name |-> n, type |-> t, tuple_index |-> i]

\* nreturns = len(called.returns)
Function(n, nreturns) == [k |-> "Function", name |-> n, returns |-> nreturns]

TypeAlias(n, u) == [k |-> "TypeAlias", name |-> n, underlying_type |-> u]

SolidityFunction(n) == [k |-> "SolidityFunction", name |-> n]

SolidityVariable(n) == [k |-> "SolidityVariable", name |-> n, type |-> "address"]

SolidityVariableComposed(n) == [k |-> "SolidityVariableComposed", name |-> n, type |-> "uint256"]

Contract(n, udts, errs) ==
    [k |-> "Contract", name |-> n, user_defined_types |-> udts, custom_errors |-> errs]

CustomError(n) == [k |-> "CustomError", name |-> n]

Enum(n, nvalues) == [k |-> "Enum", name |-> n, values |-> nvalues]

\* a Type used as a value (elementary type-name expression)
ElementaryType(t) == [k |-> "ElementaryType", name |-> t]

Constant(v, t) == [k |-> "Constant", val |-> v, type |-> t]

\* type is "" until set_type is called
TemporaryVariable(i) == [k |-> "TemporaryVariable", index |-> i, type |-> ""]

ReferenceVariable(i) == [k |-> "ReferenceVariable", index |-> i, type |-> ""]

TupleVariable(i) == [k |-> "TupleVariable", index |-> i, type |-> ""]

\* a Python list of values (the value of a multi-element tuple expression)
List(vs) == [k |-> "list", elems |-> vs]

set_type(v, t) == [v EXCEPT !.type = t]

IsVariable(v) ==
    v.k \in {"LocalVariable", "LocalVariableInitFromTuple", "StateVariable",
             "TemporaryVariable", "ReferenceVariable", "TupleVariable", "Constant"}

\* v.name, for the values the call rule compares by name
NameOf(v) ==
    CASE v.k = "TemporaryVariable" -> "TMP"
      [] v.k = "ReferenceVariable" -> "REF"
      [] v.k = "TupleVariable" -> "TUPLE"
      [] v.k = "Constant" -> v.val
      [] OTHER -> v.name

\* v.type, for the values that have one
TypeOf(v) == v.type

\* --------------------------------------------------- IR instructions (§3)
\* expression is the path of the node given to set_expression (NoExpression
\* when the rule never calls it); node is set by the constructor's last loop
NoExpression == << <<"none", 0>> >>

Assignment(l, r, t, e) ==
    [op |-> "Assignment", lvalue |-> l, rvalue |-> r, return_type |-> t,
     expression |-> e, node |-> "unset"]

Binary(res, l, r, t, e) ==
    [op |-> "Binary", lvalue |-> res, left |-> l, right |-> r, type |-> t,
     expression |-> e, node |-> "unset"]

Unary(res, v, t, e) ==
    [op |-> "Unary", lvalue |-> res, rvalue |-> v, type |-> t,
     expression |-> e, node |-> "unset"]

Delete(l, v, e) ==
    [op |-> "Delete", lvalue |-> l, variable |-> v, expression |-> e, node |-> "unset"]

TypeConversion(res, v, t, e) ==
    [op |-> "TypeConversion", lvalue |-> res, variable |-> v, type |-> t,
     expression |-> e, node |-> "unset"]

Unpack(res, tup, idx, e) ==
    [op |-> "Unpack", lvalue |-> res, tuple |-> tup, index |-> idx,
     expression |-> e, node |-> "unset"]

InitArray(vals, l, e) ==
    [op |-> "InitArray", init_values |-> vals, lvalue |-> l,
     expression |-> e, node |-> "unset"]

Member(base, right, res, e) ==
    [op |-> "Member", variable_left |-> base, variable_right |-> right, lvalue |-> res,
     expression |-> e, node |-> "unset"]

Argument(a, e) ==
    [op |-> "Argument", argument |-> a, expression |-> e, node |-> "unset"]

InternalCall(f, n, res, tc, e) ==
    [op |-> "InternalCall", function |-> f, nbr_arguments |-> n, lvalue |-> res,
     type_call |-> tc, expression |-> e, node |-> "unset"]

TmpCall(called, n, res, tc, gas, value, salt, e) ==
    [op |-> "TmpCall", called |-> called, nbr_arguments |-> n, lvalue |-> res,
     type_call |-> tc, call_gas |-> gas, call_value |-> value, call_salt |-> salt,
     expression |-> e, node |-> "unset"]

SolidityCall(f, n, res, args, e) ==
    [op |-> "SolidityCall", function |-> f, nbr_arguments |-> n, lvalue |-> res,
     arguments |-> args, expression |-> e, node |-> "unset"]

Return(v, e) ==
    [op |-> "Return", values |-> v, expression |-> e, node |-> "unset"]

set_node(ir, n) == [ir EXCEPT !.node = n]

\* ------------------------------------------- expression-tree nodes (§3)
\* an absent entry of arguments / expressions, an absent call modifier
Absent == [kind |-> "Absent"]

Identifier(v) == [kind |-> "Identifier", value |-> v]

Literal(v, t) == [kind |-> "Literal", lit_value |-> v, type |-> t]

ElementaryTypeNameExpression(t) == [kind |-> "ElementaryTypeNameExpression", type |-> t]

AssignmentOperation(l, r, t) ==
    [kind |-> "AssignmentOperation", expression_left |-> l, expression_right |-> r,
     type |-> t, expression_return_type |-> "uint256"]

BinaryOperation(l, r, t) ==
    [kind |-> "BinaryOperation", expression_left |-> l, expression_right |-> r, type |-> t]

UnaryOperation(x, t) == [kind |-> "UnaryOperation", expression |-> x, type |-> t]

CallExpression(called, args, tc, value, gas, salt) ==
    [kind |-> "CallExpression", called |-> called, arguments |-> args, type_call |-> tc,
     call_value |-> value, call_gas |-> gas, call_salt |-> salt]

MemberAccess(x, m) == [kind |-> "MemberAccess", expression |-> x, member_name |-> m]

TupleExpression(xs, inline) ==
    [kind |-> "TupleExpression", expressions |-> xs, is_inline_array |-> inline]

TypeConversionExpression(x, t) ==
    [kind |-> "TypeConversion", expression |-> x, type |-> t]

ConditionalExpression(c, t, e) ==
    [kind |-> "ConditionalExpression", if_expression |-> c, then_expression |-> t,
     else_expression |-> e]

\* `if a:` on an optional sub-expression
Present(e) == e.kind # "Absent"

\* a node is named by its path from the statement's root: a sequence of
\* <<field, index>> slots (index 0 for a field that is not a list)
Slot(f) == <<f, 0>>

Child(e, slot) ==
    CASE slot[1] = "arguments" -> e.arguments[slot[2]]
      [] slot[1] = "expressions" -> e.expressions[slot[2]]
      [] slot[1] = "expression_left" -> e.expression_left
      [] slot[1] = "expression_right" -> e.expression_right
      [] slot[1] = "expression" -> e.expression
      [] slot[1] = "called" -> e.called
      [] slot[1] = "call_value" -> e.call_value
      [] slot[1] = "call_gas" -> e.call_gas
      [] slot[1] = "call_salt" -> e.call_salt
      [] slot[1] = "if_expression" -> e.if_expression
      [] slot[1] = "then_expression" -> e.then_expression
      [] slot[1] = "else_expression" -> e.else_expression

RECURSIVE At(_, _)
At(e, p) == IF p = <<>> THEN e ELSE At(Child(e, Head(p)), Tail(p))

\* the slots of xs[from..] that hold an expression, in order
RECURSIVE PresentSlots(_, _, _)
PresentSlots(f, xs, from) ==
    IF from > Len(xs) THEN <<>>
    ELSE (IF Present(xs[from]) THEN << <<f, from>> >> ELSE <<>>)
         \o PresentSlots(f, xs, from + 1)

OptionalSlot(e, f) == IF Present(Child(e, Slot(f))) THEN <<Slot(f)>> ELSE <<>>

\* the children ExpressionVisitor._visit_* visits, in its order
Children(e) ==
    CASE e.kind \in {"AssignmentOperation", "BinaryOperation"} ->
            <<Slot("expression_left"), Slot("expression_right")>>
      [] e.kind \in {"UnaryOperation", "MemberAccess", "TypeConversion"} ->
            <<Slot("expression")>>
      [] e.kind = "CallExpression" ->
            <<Slot("called")>> \o PresentSlots("arguments", e.arguments, 1)
            \o OptionalSlot(e, "call_value") \o OptionalSlot(e, "call_gas")
            \o OptionalSlot(e, "call_salt")
      [] e.kind = "TupleExpression" -> PresentSlots("expressions", e.expressions, 1)
      [] e.kind = "ConditionalExpression" ->
            <<Slot("if_expression"), Slot("else_expression"), Slot("then_expression")>>
      [] OTHER -> <<>>

\* ExpressionVisitor._visit_expression: the children first, then the node's
\* own _post_* rule; the sequence of paths in the order their rules run
RECURSIVE PostOrder(_, _)
RECURSIVE PostOrderFrom(_, _, _, _)
PostOrderFrom(e, p, ch, i) ==
    IF i > Len(ch) THEN <<>>
    ELSE PostOrder(Child(e, ch[i]), Append(p, ch[i])) \o PostOrderFrom(e, p, ch, i + 1)

PostOrder(e, p) == PostOrderFrom(e, p, Children(e), 1) \o <<p>>

\* ------------------------------------------------- per-node scratch store
\* context maps the paths that hold an entry to the value (expression.context[key])
KeyError == [k |-> "KeyError"]

EmptyContext == [q \in {} |-> None]

\* get without the del: the entry stays readable
get_keeping(context, p) ==
    IF p \in DOMAIN context
    THEN [val |-> context[p], context |-> context]
    ELSE [val |-> KeyError, context |-> context]

\* get: the value, and the store with the entry deleted
get(context, p) ==
    IF p \in DOMAIN context
    THEN [val |-> context[p],
          context |-> [q \in DOMAIN context \ {p} |-> context[q]]]
    ELSE [val |-> KeyError, context |-> context]

get_without_removing(context, p) ==
    IF p \in DOMAIN context THEN context[p] ELSE KeyError

set_val(context, p, val) ==
    [q \in DOMAIN context \cup {p} |-> IF q = p THEN val ELSE context[q]]

\* ------------------------------------------------------ operator tables
_binary_to_binary ==
    [POWER |-> "POWER", MULTIPLICATION |-> "MULTIPLICATION", DIVISION |-> "DIVISION",
     MODULO |-> "MODULO", ADDITION |-> "ADDITION", SUBTRACTION |-> "SUBTRACTION",
     LEFT_SHIFT |-> "LEFT_SHIFT", RIGHT_SHIFT |-> "RIGHT_SHIFT", AND |-> "AND",
     CARET |-> "CARET", OR |-> "OR", LESS |-> "LESS", GREATER |-> "GREATER",
     LESS_EQUAL |-> "LESS_EQUAL", GREATER_EQUAL |-> "GREATER_EQUAL", EQUAL |-> "EQUAL",
     NOT_EQUAL |-> "NOT_EQUAL", ANDAND |-> "ANDAND", OROR |-> "OROR"]

\* a table that keeps the signed opcode of the comparisons
_signed_to_unsigned_kept ==
    [DIVISION_SIGNED |-> "DIVISION", MODULO_SIGNED |-> "MODULO",
     LESS_SIGNED |-> "LESS_SIGNED", GREATER_SIGNED |-> "GREATER_SIGNED",
     RIGHT_SHIFT_ARITHMETIC |-> "RIGHT_SHIFT"]

_signed_to_unsigned ==
    [DIVISION_SIGNED |-> "DIVISION", MODULO_SIGNED |-> "MODULO", LESS_SIGNED |-> "LESS",
     GREATER_SIGNED |-> "GREATER", RIGHT_SHIFT_ARITHMETIC |-> "RIGHT_SHIFT"]

\* ------------------------------------------------------ lowering state
\* the part of the visitor's state a rule reads and writes: the scratch
\* store, self._result, the node's temporary / reference / tuple counters,
\* and the exception raised ("none" while none was)
Emit(s, ir) == [s EXCEPT !.result = Append(@, ir)]

SetVal(s, p, v) == [s EXCEPT !.context = set_val(@, p, v)]

Raise(s, exc) == [s EXCEPT !.err = exc]

Raised(v) == v.k = "KeyError"

\* ------------------------------------------------------ constant folding
\* The evaluator (slither/visitors/expression/constants_folding.py) is not
\* among the source files; it is modelled from §4.1: "if both operands reduce
\* to compile-time constants, compute the result directly".  A folded value is
\* a Python int or bool; NotConstant stands for the exception of that name.
NotConstant == [t |-> "NotConstant", n |-> 0, b |-> FALSE]

IntVal(n) == [t |-> "int", n |-> n, b |-> FALSE]

BoolVal(b) == [t |-> "bool", n |-> 0, b |-> b]

IntTypes == {"uint256", "int256", "uint8"}

\* int(literal): the number a decimal literal denotes
IntOfStr(str) == CHOOSE i \in 0..MaxLit : ToString(i) = str

\* Python's str() of a folded value
Str(v) == IF v.t = "bool" THEN (IF v.b THEN "True" ELSE "False") ELSE ToString(v.n)

RECURSIVE BitOp(_, _, _)
BitOp(op, a, b) ==
    IF a = 0 /\ b = 0 THEN 0
    ELSE LET x == a % 2
             y == b % 2
             bit == CASE op = "AND" -> IF x = 1 /\ y = 1 THEN 1 ELSE 0
                      [] op = "OR" -> IF x = 1 \/ y = 1 THEN 1 ELSE 0
                      [] op = "CARET" -> IF x # y THEN 1 ELSE 0
         IN bit + 2 * BitOp(op, a \div 2, b \div 2)

\* signed operators on the non-negative literals of the statements compute
\* what their unsigned counterparts do
FoldBinary(op, l, r) ==
    IF l.t = "int" /\ r.t = "int" THEN
        CASE op = "POWER" -> IntVal(l.n ^ r.n)
          [] op = "MULTIPLICATION" -> IntVal(l.n * r.n)
          [] op \in {"DIVISION", "DIVISION_SIGNED"} -> IntVal(l.n \div r.n)
          [] op \in {"MODULO", "MODULO_SIGNED"} -> IntVal(l.n % r.n)
          [] op = "ADDITION" -> IntVal(l.n + r.n)
          [] op = "SUBTRACTION" -> IntVal(l.n - r.n)
          [] op = "LEFT_SHIFT" -> IntVal(l.n * (2 ^ r.n))
          [] op \in {"RIGHT_SHIFT", "RIGHT_SHIFT_ARITHMETIC"} -> IntVal(l.n \div (2 ^ r.n))
          [] op \in {"AND", "OR", "CARET"} -> IntVal(BitOp(op, l.n, r.n))
          [] op \in {"LESS", "LESS_SIGNED"} -> BoolVal(l.n < r.n)
          [] op \in {"GREATER", "GREATER_SIGNED"} -> BoolVal(l.n > r.n)
          [] op = "LESS_EQUAL" -> BoolVal(l.n <= r.n)
          [] op = "GREATER_EQUAL" -> BoolVal(l.n >= r.n)
          [] op = "EQUAL" -> BoolVal(l.n = r.n)
          [] op = "NOT_EQUAL" -> BoolVal(l.n # r.n)
          [] OTHER -> NotConstant
    ELSE IF l.t = "bool" /\ r.t = "bool" THEN
        CASE op = "ANDAND" -> BoolVal(l.b /\ r.b)
          [] op = "OROR" -> BoolVal(l.b \/ r.b)
          [] op = "EQUAL" -> BoolVal(l.b = r.b)
          [] op = "NOT_EQUAL" -> BoolVal(l.b # r.b)
          [] OTHER -> NotConstant
    ELSE NotConstant

FoldUnary(op, v) ==
    CASE op = "MINUS_PRE" /\ v.t = "int" -> IntVal(0 - v.n)
      [] op = "PLUS_PRE" /\ v.t = "int" -> v
      [] op = "TILD" /\ v.t = "int" -> IntVal(0 - v.n - 1)
      [] op = "BANG" /\ v.t = "bool" -> BoolVal(~v.b)
      [] OTHER -> NotConstant

RECURSIVE ConstantFolding(_)
ConstantFolding(e) ==
    CASE e.kind = "Literal" ->
            IF e.type = "bool" THEN BoolVal(e.lit_value = "true")
            ELSE IF e.type \in IntTypes THEN IntVal(IntOfStr(e.lit_value))
            ELSE NotConstant
      [] e.kind = "BinaryOperation" ->
            LET l == ConstantFolding(e.expression_left)
                r == ConstantFolding(e.expression_right)
            IN IF l.t = "NotConstant" \/ r.t = "NotConstant" THEN NotConstant
               ELSE FoldBinary(e.type, l, r)
      [] e.kind = "UnaryOperation" ->
            LET v == ConstantFolding(e.expression)
            IN IF v.t = "NotConstant" THEN NotConstant ELSE FoldUnary(e.type, v)
      [] OTHER -> NotConstant

\* the kind of the value looked at before the operator
FoldedTypeValueFirst(optype, value) ==
    IF value.t = "bool" THEN "bool"
    ELSE IF optype \in DOMAIN _signed_to_unsigned THEN "uint"
    ELSE IF value.t = "int" THEN "int"
    ELSE "string"

\* the type _attempt_constant_folding guesses for the folded Constant
FoldedType(optype, value) ==
    IF optype \in DOMAIN _signed_to_unsigned THEN "uint"
    ELSE IF value.t = "bool" THEN "bool"
    ELSE IF value.t = "int" THEN "int"
    ELSE "string"

\* _attempt_constant_folding: [folded, s]; on success the Constant is recorded
\* for the node and no child entry is read
_attempt_constant_folding(s, e, p) ==
    LET const_value == ConstantFolding(e)
    IN IF const_value.t = "NotConstant" THEN [folded |-> FALSE, s |-> s]
       ELSE [folded |-> TRUE,
             s |-> SetVal(s, p, Constant(Str(const_value), FoldedType(e.type, const_value)))]

\* ------------------------------------------------------------ leaf rules
_post_identifier(s, e, p) == SetVal(s, p, e.value)

_post_literal(s, e, p) == SetVal(s, p, Constant(e.lit_value, e.type))

_post_elementary_type_name_expression(s, e, p) == SetVal(s, p, ElementaryType(e.type))

_post_conditional_expression(s, e, p) == Raise(s, "Exception")

\* -------------------------------------------------------- binary operation
\* `if expression.type != BinaryOperationType.RIGHT_SHIFT_ARITHMETIC`: whether
\* the right operand of a signed operator is converted too
\* every signed operator converts its right operand
ConvertsRightAlways(optype) == TRUE

ConvertsRight(optype) == optype # "RIGHT_SHIFT_ARITHMETIC"

_post_binary_operation(s, e, p, generates_certik_ir) ==
    LET fold == IF generates_certik_ir THEN _attempt_constant_folding(s, e, p)
                ELSE [folded |-> FALSE, s |-> s]
        gl == get(s.context, Append(p, Slot("expression_left")))
        gr == get(gl.context, Append(p, Slot("expression_right")))
        left == gl.val
        right == gr.val
        s1 == [s EXCEPT !.context = gr.context]
        val == TemporaryVariable(s.tmp)
        signed == e.type \in DOMAIN _signed_to_unsigned
        both == ConvertsRight(e.type)
        new_left == set_type(TemporaryVariable(s.tmp + 1), "int256")
        conv_left == TypeConversion(new_left, left, "int256", p)
        new_right == IF both THEN set_type(TemporaryVariable(s.tmp + 2), "int256")
                     ELSE right
        conv_right == TypeConversion(new_right, right, "int256", p)
        new_final == TemporaryVariable(IF both THEN s.tmp + 3 ELSE s.tmp + 2)
        operation == Binary(new_final, new_left, new_right, _signed_to_unsigned[e.type], p)
        uval == set_type(val, "uint256")
        conv_final == TypeConversion(uval, new_final, "uint256", p)
    IN IF fold.folded THEN fold.s
       ELSE IF Raised(left) THEN Raise(s, "KeyError")
       ELSE IF Raised(right) THEN Raise([s EXCEPT !.context = gl.context], "KeyError")
       ELSE IF signed THEN
            SetVal([s1 EXCEPT !.result = @ \o <<conv_left>>
                                         \o (IF both THEN <<conv_right>> ELSE <<>>)
                                         \o <<operation, conv_final>>,
                              !.tmp = IF both THEN @ + 4 ELSE @ + 3],
                   p, uval)
       ELSE SetVal([Emit(s1, Binary(val, left, right, _binary_to_binary[e.type], p))
                        EXCEPT !.tmp = @ + 1],
                   p, val)

\* --------------------------------------------------------- unary operation
\* the four increment / decrement branches: the in-place Binary on value, and
\* for the postfix forms the copy of value into a fresh Temporary before it;
\* the value recorded is the Temporary (postfix) or value itself (prefix)
\* the postfix copy taken after the in-place step instead of before it
IncrementDecrementCopyAfter(s, value, p, opcode, postfix) ==
    LET lvalue == TemporaryVariable(s.tmp)
        step == Binary(value, value, Constant("1", TypeOf(value)), opcode, p)
    IN IF postfix
       THEN SetVal([s EXCEPT !.result = @ \o <<step,
                                               Assignment(lvalue, value, TypeOf(value), p)>>,
                             !.tmp = @ + 1],
                   p, lvalue)
       ELSE SetVal(Emit(s, step), p, value)

IncrementDecrement(s, value, p, opcode, postfix) ==
    LET lvalue == TemporaryVariable(s.tmp)
        step == Binary(value, value, Constant("1", TypeOf(value)), opcode, p)
    IN IF postfix
       THEN SetVal([s EXCEPT !.result = @ \o <<Assignment(lvalue, value, TypeOf(value), p),
                                               step>>,
                             !.tmp = @ + 1],
                   p, lvalue)
       ELSE SetVal(Emit(s, step), p, value)

\* the last else of the rule lies beyond the source text at hand; no
\* statement of the model reaches it
_post_unary_operation(s, e, p, generates_certik_ir) ==
    LET fold == IF generates_certik_ir THEN _attempt_constant_folding(s, e, p)
                ELSE [folded |-> FALSE, s |-> s]
        g == get(s.context, Append(p, Slot("expression")))
        value == g.val
        s1 == [s EXCEPT !.context = g.context]
        lvalue == TemporaryVariable(s.tmp)
        zero == Constant("0", TypeOf(value))
        fresh(st) == [st EXCEPT !.tmp = @ + 1]
    IN IF fold.folded THEN fold.s
       ELSE IF Raised(value) THEN Raise(s, "KeyError")
       ELSE CASE e.type \in {"BANG", "TILD"} ->
                    SetVal(fresh(Emit(s1, Unary(lvalue, value, e.type, p))), p, lvalue)
              [] e.type = "DELETE" ->
                    SetVal(Emit(s1, Delete(value, value, p)), p, value)
              [] e.type = "PLUSPLUS_PRE" ->
                    IncrementDecrement(s1, value, p, "ADDITION", FALSE)
              [] e.type = "MINUSMINUS_PRE" ->
                    IncrementDecrement(s1, value, p, "SUBTRACTION", FALSE)
              [] e.type = "PLUSPLUS_POST" ->
                    IncrementDecrement(s1, value, p, "ADDITION", TRUE)
              [] e.type = "MINUSMINUS_POST" ->
                    IncrementDecrement(s1, value, p, "SUBTRACTION", TRUE)
              [] e.type = "PLUS_PRE" -> SetVal(s1, p, value)
              [] e.type = "MINUS_PRE" ->
                    SetVal(fresh(Emit(s1, Binary(lvalue, zero, value, "SUBTRACTION", p))),
                           p, lvalue)
              [] OTHER -> Raise(s1, "SlithIRError")

\* ---------------------------------------------------------- type conversion
_post_type_conversion(s, e, p) ==
    LET g == get(s.context, Append(p, Slot("expression")))
        val == set_type(TemporaryVariable(s.tmp), e.type)
    IN IF Raised(g.val) THEN Raise(s, "KeyError")
       ELSE SetVal([s EXCEPT !.context = g.context,
                             !.result = Append(@, TypeConversion(val, g.val, e.type, p)),
                             !.tmp = @ + 1],
                   p, val)

\* ------------------------------------------------------------------ tuples
\* [get(e) if e else None for e in expression.expressions]: [vals, context],
\* vals holding KeyError where a read failed
RECURSIVE GetEach(_, _, _, _, _)
GetEach(context, p, f, xs, i) ==
    IF i > Len(xs) THEN [vals |-> <<>>, context |-> context]
    ELSE IF ~Present(xs[i]) THEN
        LET rest == GetEach(context, p, f, xs, i + 1)
        IN [vals |-> <<None>> \o rest.vals, context |-> rest.context]
    ELSE
        LET g == get(context, Append(p, <<f, i>>))
            rest == GetEach(g.context, p, f, xs, i + 1)
        IN [vals |-> <<g.val>> \o rest.vals, context |-> rest.context]

AnyRaised(vals) == \E i \in 1..Len(vals) : Raised(vals[i])

_post_tuple_expression(s, e, p) ==
    LET g == GetEach(s.context, p, "expressions", e.expressions, 1)
        expressions == g.vals
        s1 == [s EXCEPT !.context = g.context]
        temp_var == TemporaryVariable(s.tmp)
    IN IF AnyRaised(expressions) THEN Raise(s1, "KeyError")
       ELSE IF e.is_inline_array THEN
            SetVal([Emit(s1, InitArray(List(expressions), temp_var, NoExpression))
                        EXCEPT !.tmp = @ + 1],
                   p, temp_var)
       ELSE IF Len(expressions) = 1 THEN SetVal(s1, p, expressions[1])
       ELSE SetVal(s1, p, List(expressions))

\* -------------------------------------------------------------- assignment
SlithIRError == [op |-> "SlithIRError"]

\* -= taken for += (the line above it in the source)
convert_assignment_subtraction_as_addition(left, right, t, return_type, e) ==
    LET opcode == [ASSIGN_OR |-> "OR", ASSIGN_CARET |-> "CARET", ASSIGN_AND |-> "AND",
                   ASSIGN_LEFT_SHIFT |-> "LEFT_SHIFT", ASSIGN_RIGHT_SHIFT |-> "RIGHT_SHIFT",
                   ASSIGN_ADDITION |-> "ADDITION", ASSIGN_SUBTRACTION |-> "ADDITION",
                   ASSIGN_MULTIPLICATION |-> "MULTIPLICATION",
                   ASSIGN_DIVISION |-> "DIVISION", ASSIGN_MODULO |-> "MODULO"]
    IN IF t = "ASSIGN" THEN Assignment(left, right, return_type, e)
       ELSE IF t \in DOMAIN opcode THEN Binary(left, left, right, opcode[t], e)
       ELSE SlithIRError

\* convert_assignment: the instruction, or SlithIRError when t has no mapping
convert_assignment(left, right, t, return_type, e) ==
    CASE t = "ASSIGN" -> Assignment(left, right, return_type, e)
      [] t = "ASSIGN_OR" -> Binary(left, left, right, "OR", e)
      [] t = "ASSIGN_CARET" -> Binary(left, left, right, "CARET", e)
      [] t = "ASSIGN_AND" -> Binary(left, left, right, "AND", e)
      [] t = "ASSIGN_LEFT_SHIFT" -> Binary(left, left, right, "LEFT_SHIFT", e)
      [] t = "ASSIGN_RIGHT_SHIFT" -> Binary(left, left, right, "RIGHT_SHIFT", e)
      [] t = "ASSIGN_ADDITION" -> Binary(left, left, right, "ADDITION", e)
      [] t = "ASSIGN_SUBTRACTION" -> Binary(left, left, right, "SUBTRACTION", e)
      [] t = "ASSIGN_MULTIPLICATION" -> Binary(left, left, right, "MULTIPLICATION", e)
      [] t = "ASSIGN_DIVISION" -> Binary(left, left, right, "DIVISION", e)
      [] t = "ASSIGN_MODULO" -> Binary(left, left, right, "MODULO", e)
      [] OTHER -> SlithIRError

IsNone(v) == v.k = "None"

\* the loop of the list = list case from element i on: the instructions
\* appended, up to and not including the first convert_assignment that raises
RECURSIVE UnboxLoop(_, _, _, _, _)
UnboxLoop(left, right, e, p, i) ==
    IF i > Len(left) THEN [irs |-> <<>>, raised |-> FALSE]
    ELSE IF IsNone(left[i]) THEN UnboxLoop(left, right, e, p, i + 1)
    ELSE LET operation == convert_assignment(left[i], right[i], e.type,
                                             e.expression_return_type, p)
             rest == UnboxLoop(left, right, e, p, i + 1)
         IN IF operation.op = "SlithIRError" THEN [irs |-> <<>>, raised |-> TRUE]
            ELSE [irs |-> <<operation>> \o rest.irs, raised |-> rest.raised]

\* the index an Unpack selects for the target at position i (1-based here,
\* idx = i - 1 in the source)
UnpackIndex(target, i) ==
    IF target.k = "LocalVariableInitFromTuple" /\ target.tuple_index # -1
    THEN target.tuple_index
    ELSE i - 1

\* the Unpack index counted over the kept targets only
RECURSIVE UnpackLoopDense(_, _, _, _)
UnpackLoopDense(left, right, p, i) ==
    IF i > Len(left) THEN <<>>
    ELSE (IF IsNone(left[i]) THEN <<>>
          ELSE <<Unpack(left[i], right,
                        Cardinality({j \in 1..i - 1 : ~IsNone(left[j])}), p)>>)
         \o UnpackLoopDense(left, right, p, i + 1)

\* the loop of the list = TupleVariable case from element i on
RECURSIVE UnpackLoop(_, _, _, _)
UnpackLoop(left, right, p, i) ==
    IF i > Len(left) THEN <<>>
    ELSE (IF IsNone(left[i]) THEN <<>>
          ELSE <<Unpack(left[i], right, UnpackIndex(left[i], i), p)>>)
         \o UnpackLoop(left, right, p, i + 1)

\* the right operand recorded instead of the left
AssignedValueRight(left, right) == right

\* `set_val(expression, left)`: "Return left to handle a = b = 1"
AssignedValue(left, right) == left

_post_assignement_operation(s, e, p) ==
    LET gl == get(s.context, Append(p, Slot("expression_left")))
        gr == get(gl.context, Append(p, Slot("expression_right")))
        left == gl.val
        right == gr.val
        s1 == [s EXCEPT !.context = gr.context]
        unbox == UnboxLoop(left.elems, right.elems, e, p, 1)
        operation == convert_assignment(left, right, e.type, e.expression_return_type, p)
    IN IF Raised(left) THEN Raise(s, "KeyError")
       ELSE IF Raised(right) THEN Raise([s EXCEPT !.context = gl.context], "KeyError")
       ELSE IF left.k = "list" THEN
            IF right.k = "list" THEN
                IF Len(left.elems) # Len(right.elems) THEN Raise(s1, "AssertionError")
                ELSE IF unbox.raised
                     THEN Raise([s1 EXCEPT !.result = @ \o unbox.irs], "SlithIRError")
                ELSE SetVal([s1 EXCEPT !.result = @ \o unbox.irs], p, None)
            ELSE IF right.k # "TupleVariable" THEN Raise(s1, "AssertionError")
            ELSE SetVal([s1 EXCEPT !.result = @ \o UnpackLoop(left.elems, right, p, 1)],
                        p, None)
       ELSE IF /\ left.k = "LocalVariableInitFromTuple"
               /\ left.tuple_index # -1
               /\ right.k = "TupleVariable" THEN
            SetVal(Emit(s1, Unpack(left, right, left.tuple_index, p)), p, None)
       ELSE IF right.k = "list" THEN
            SetVal(Emit(s1, InitArray(right, left, p)), p, left)
       ELSE IF operation.op = "SlithIRError" THEN Raise(s1, "SlithIRError")
       ELSE SetVal(Emit(s1, operation), p, AssignedValue(left, right))

\* -------------------------------------------------------------------- calls
\* expression.type_call.startswith("tuple(") and expression.type_call != "tuple()"
IsTupleTypeCall(tc) == Len(tc) >= 6 /\ SubSeq(tc, 1, 6) = "tuple(" /\ tc # "tuple()"

\* the entries of vals at the positions where xs holds an expression
RECURSIVE SelectPresent(_, _, _)
SelectPresent(vals, xs, i) ==
    IF i > Len(xs) THEN <<>>
    ELSE (IF Present(xs[i]) THEN <<vals[i]>> ELSE <<>>) \o SelectPresent(vals, xs, i + 1)

\* the Argument instructions appended last argument first
ArgumentsReversed(args, p) ==
    [i \in 1..Len(args) |-> Argument(args[Len(args) + 1 - i], p)]

\* one Argument instruction per argument, in order
Arguments(args, p) == [i \in 1..Len(args) |-> Argument(args[i], p)]

YulNames == {"caller()", "origin()", "extcodesize(uint256)", "selfbalance()",
             "address()", "callvalue()"}

\* the `yul things` branches: called.name is one of YulNames
YulCall(s, args, name, p) ==
    LET val == TemporaryVariable(s.tmp)
        ref == ReferenceVariable(s.ref)
        aval == set_type(val, "address")
        this == TypeConversion(aval, SolidityVariable("this"), "address", NoExpression)
    IN CASE name = "caller()" ->
                SetVal([Emit(s, Assignment(val, SolidityVariableComposed("msg.sender"),
                                           "uint256", NoExpression))
                            EXCEPT !.tmp = @ + 1], p, val)
         [] name = "origin()" ->
                SetVal([Emit(s, Assignment(val, SolidityVariableComposed("tx.origin"),
                                           "uint256", NoExpression))
                            EXCEPT !.tmp = @ + 1], p, val)
         [] name = "extcodesize(uint256)" ->
                IF Len(args) = 0 THEN Raise(s, "IndexError")
                ELSE SetVal([Emit(s, Member(args[1], Constant("codesize", "string"), ref,
                                            NoExpression))
                                 EXCEPT !.ref = @ + 1], p, ref)
         [] name = "selfbalance()" ->
                SetVal([Emit(Emit(s, this),
                             Member(aval, Constant("balance", "string"), ref, NoExpression))
                            EXCEPT !.tmp = @ + 1, !.ref = @ + 1], p, ref)
         [] name = "address()" ->
                SetVal([Emit(s, this) EXCEPT !.tmp = @ + 1], p, aval)
         [] name = "callvalue()" ->
                SetVal([Emit(s, Assignment(val, SolidityVariableComposed("msg.value"),
                                           "uint256", NoExpression))
                            EXCEPT !.tmp = @ + 1], p, val)

\* get(expression.call_X) when the modifier is present, else the attribute
\* keeps its default None
GetModifier(context, e, p, f) ==
    IF Present(Child(e, Slot(f))) THEN get(context, Append(p, Slot(f)))
    ELSE [val |-> None, context |-> context]

\* the first argument taken as the call's value
PlaceholderCallValueFromArgument(s, e, p, called, args) ==
    LET tuple == IsTupleTypeCall(e.type_call)
        val == IF tuple THEN TupleVariable(s.tup) ELSE TemporaryVariable(s.tmp)
        s1 == IF tuple THEN [s EXCEPT !.tup = @ + 1] ELSE [s EXCEPT !.tmp = @ + 1]
        message_call == TmpCall(called, Len(args), val, e.type_call, None,
                                IF Len(args) > 0 THEN args[1] ELSE None, None, p)
    IN SetVal(Emit(s1, message_call), p, val)

\* the final else branch: the placeholder call
PlaceholderCall(s, e, p, called, args) ==
    LET tuple == IsTupleTypeCall(e.type_call)
        val == IF tuple THEN TupleVariable(s.tup) ELSE TemporaryVariable(s.tmp)
        s1 == IF tuple THEN [s EXCEPT !.tup = @ + 1] ELSE [s EXCEPT !.tmp = @ + 1]
        gg == GetModifier(s1.context, e, p, "call_gas")
        gv == GetModifier(gg.context, e, p, "call_value")
        gs == GetModifier(gv.context, e, p, "call_salt")
        message_call == TmpCall(called, Len(args), val, e.type_call,
                                gg.val, gv.val, gs.val, p)
    IN IF Raised(gg.val) THEN Raise(s1, "KeyError")
       ELSE IF Raised(gv.val) THEN Raise([s1 EXCEPT !.context = gg.context], "KeyError")
       ELSE IF Raised(gs.val) THEN Raise([s1 EXCEPT !.context = gv.context], "KeyError")
       ELSE SetVal(Emit([s1 EXCEPT !.context = gs.context], message_call), p, val)

\* the destination type of the conversion a wrap / unwrap call lowers to
\* wrap and unwrap exchanged
WrapDestTypeSwapped(called, member_name) ==
    IF member_name = "wrap" THEN called.underlying_type ELSE called.name

WrapDestType(called, member_name) ==
    IF member_name = "wrap" THEN called.name ELSE called.underlying_type

_post_call_expression(s, e, p) ==
    LET expression_called == e.called
        gc == get(s.context, Append(p, Slot("called")))
        called == gc.val
        ga == GetEach(gc.context, p, "arguments", e.arguments, 1)
        args == SelectPresent(ga.vals, e.arguments, 1)
        s1 == [s EXCEPT !.context = ga.context, !.result = @ \o Arguments(args, p)]
        tuple == IsTupleTypeCall(e.type_call)
        ival == IF tuple THEN TupleVariable(s.tup) ELSE TemporaryVariable(s.tmp)
        s2 == IF tuple THEN [s1 EXCEPT !.tup = @ + 1] ELSE [s1 EXCEPT !.tmp = @ + 1]
        dest_type == WrapDestType(called, expression_called.member_name)
        wval == set_type(TemporaryVariable(s.tmp), dest_type)
    IN IF Raised(called) THEN Raise(s, "KeyError")
       ELSE IF AnyRaised(ga.vals) THEN Raise([s EXCEPT !.context = ga.context], "KeyError")
       ELSE IF called.k = "Function" THEN
            IF ~tuple /\ called.returns > 1 THEN Raise(s1, "AssertionError")
            ELSE SetVal(Emit(s2, InternalCall(called, Len(args), ival, e.type_call, p)),
                        p, ival)
       ELSE IF /\ called.k = "TypeAlias"
               /\ expression_called.kind = "MemberAccess"
               /\ expression_called.member_name \in {"wrap", "unwrap"}
               /\ Len(args) = 1 THEN
            SetVal([Emit(s1, TypeConversion(wval, args[1], dest_type, p))
                        EXCEPT !.tmp = @ + 1], p, wval)
       ELSE IF NameOf(called) \in YulNames THEN YulCall(s1, args, NameOf(called), p)
       ELSE PlaceholderCall(s1, e, p, called, args)

\* ------------------------------------------------------------ member access
\* str(type_found.min) / str(type_found.max): ElementaryType and Enum are not
\* among the source files; the decimal strings of the types the statements use
TypeMin(t) ==
    CASE t.k = "Enum" -> "0"
      [] t.name = "uint8" -> "0"
      [] t.name = "int8" -> "-128"
      [] OTHER -> "0"

TypeMax(t) ==
    CASE t.k = "Enum" -> ToString(t.values - 1)
      [] t.name = "uint8" -> "255"
      [] t.name = "int8" -> "127"
      [] OTHER -> "115792089237316195423570985008687907853269984665640564039457584007913129639935"

\* the other bound picked
TypeBoundSwapped(member_name, type_found) ==
    IF member_name = "min" THEN TypeMax(type_found) ELSE TypeMin(type_found)

\* the bound the rule reads for the member name
TypeBound(member_name, type_found) ==
    IF member_name = "min" THEN TypeMin(type_found) ELSE TypeMax(type_found)

\* `type(X).min` / `type(X).max`, recognised on the AST
IsTypeMinMax(e) ==
    /\ e.expression.kind = "CallExpression"
    /\ e.member_name \in {"min", "max"}
    /\ e.expression.called.kind = "Identifier"
    /\ e.expression.called.value = SolidityFunction("type()")

_post_member_access(s, e, p) ==
    LET g == get(s.context, Append(p, Slot("expression")))
        expr == g.val
        s1 == [s EXCEPT !.context = g.context]
        val == TemporaryVariable(s.tmp)
        ref == ReferenceVariable(s.ref)
        type_expression_found == e.expression.arguments[1]
        elementary == type_expression_found.kind = "ElementaryTypeNameExpression"
        type_found == IF elementary THEN ElementaryType(type_expression_found.type)
                      ELSE type_expression_found.value
        constant_type == IF elementary THEN type_found.name ELSE ""
        bound == TypeBound(e.member_name, type_found)
        sol_func == SolidityFunction(e.member_name \o "(address)")
    IN IF Raised(expr) THEN Raise(s, "KeyError")
       ELSE IF IsTypeMinMax(e) THEN
            IF Len(e.expression.arguments) # 1 THEN Raise(s1, "AssertionError")
            ELSE IF ~elementary /\ type_expression_found.kind # "Identifier"
                 THEN Raise([s1 EXCEPT !.tmp = @ + 1], "AssertionError")
            ELSE IF ~elementary /\ type_found.k # "Enum"
                 THEN Raise([s1 EXCEPT !.tmp = @ + 1], "AssertionError")
            ELSE SetVal([Emit(s1, Assignment(val, Constant(bound, constant_type),
                                             type_found.name, NoExpression))
                             EXCEPT !.tmp = @ + 1], p, val)
       ELSE IF /\ IsVariable(expr)
               /\ TypeOf(expr) = "address"
               /\ e.member_name \in {"balance", "code", "codehash"} THEN
            SetVal([Emit(s1, SolidityCall(sol_func, 1, val, <<expr>>, p))
                        EXCEPT !.tmp = @ + 1], p, val)
       ELSE IF expr.k = "TypeAlias" /\ e.member_name \in {"wrap", "unwrap"} THEN
            SetVal(s1, p, expr)
       ELSE IF expr.k = "Contract" /\ e.member_name \in expr.user_defined_types THEN
            SetVal(s1, p, TypeAlias(e.member_name, "uint256"))
       ELSE IF expr.k = "Contract" /\ e.member_name \in expr.custom_errors THEN
            SetVal(s1, p, CustomError(e.member_name))
       ELSE SetVal([Emit(s1, Member(expr, Constant(e.member_name, "string"), ref, p))
                        EXCEPT !.ref = @ + 1], p, ref)

\* ------------------------------------------------------------- statements
\* the symbols of the lowered statements
VarA == LocalVariable("a", "uint256")
VarB == LocalVariable("b", "uint256")
VarX == LocalVariable("x", "address")
VarFlag == LocalVariable("flag", "bool")
MsgValue == SolidityVariableComposed("msg.value")
MyInt == TypeAlias("MyInt", "int256")
ContractA == Contract("A", {"MyInt"}, {"MyError"})
EnumE == Enum("E", 3)

IntLiterals == {Literal(ToString(i), "uint256") : i \in 1..MaxLit}
BoolLiterals == {Literal("true", "bool"), Literal("false", "bool")}
IntOperands == {Identifier(VarA), Identifier(VarB)} \cup IntLiterals
BoolOperands == {Identifier(VarFlag)} \cup BoolLiterals
EmptyString == Literal("", "string")

SignedOps == DOMAIN _signed_to_unsigned
BoolOps == {"ANDAND", "OROR"}
IntOps == (DOMAIN _binary_to_binary \ BoolOps) \cup SignedOps
PlainUnaryOps == {"MINUS_PRE", "PLUS_PRE", "TILD"}
StepUnaryOps == {"PLUSPLUS_PRE", "MINUSMINUS_PRE", "PLUSPLUS_POST", "MINUSMINUS_POST",
                 "DELETE"}
MappedAssignOps ==
    {"ASSIGN", "ASSIGN_OR", "ASSIGN_CARET", "ASSIGN_AND", "ASSIGN_LEFT_SHIFT",
     "ASSIGN_RIGHT_SHIFT", "ASSIGN_ADDITION", "ASSIGN_SUBTRACTION",
     "ASSIGN_MULTIPLICATION", "ASSIGN_DIVISION", "ASSIGN_MODULO"}
\* ASSIGN_UNMAPPED stands for any operator type convert_assignment has no case for
AssignOps == MappedAssignOps \cup {"ASSIGN_UNMAPPED"}

\* the i-th target of a tuple of targets: a plain variable, a variable
\* declared from the tuple (its tuple_index is its slot), or a discarded slot
TargetName(i) == CASE i = 1 -> "t1" [] i = 2 -> "t2" [] i = 3 -> "t3" [] OTHER -> "t4"

Target(kind, i) ==
    CASE kind = "var" -> Identifier(LocalVariable(TargetName(i), "uint256"))
      [] kind = "init" ->
            Identifier(LocalVariableInitFromTuple(TargetName(i), "uint256", i - 1))
      [] kind = "skip" -> Absent

TargetKinds == {"var", "init", "skip"}

Targets(kinds) == TupleExpression([i \in 1..Len(kinds) |-> Target(kinds[i], i)], FALSE)

\* f() returning n values
TupleCall(n) ==
    CallExpression(Identifier(Function("f", n)), <<>>, "tuple(uint256,uint256)",
                   Absent, Absent, Absent)

LiteralTuple(n) == TupleExpression([i \in 1..n |-> Literal("1", "uint256")], FALSE)

ArgLists == UNION {[1..n -> IntOperands \cup {Absent}] : n \in 0..MaxArgs}

Modifiers == {Absent, Identifier(MsgValue)}

\* x.call.value(v)(""): the old syntax, two nested call expressions
OldSyntaxCall(v) ==
    CallExpression(
        CallExpression(MemberAccess(MemberAccess(Identifier(VarX), "call"), "value"),
                       <<v>>, "uint256", Absent, Absent, Absent),
        <<EmptyString>>, "tuple(bool,bytes)", Absent, Absent, Absent)

\* x.call{value: v, gas: g, salt: s}("")
NewSyntaxCall(value, gas, salt, tc) ==
    CallExpression(MemberAccess(Identifier(VarX), "call"), <<EmptyString>>, tc,
                   value, gas, salt)

TypeOfCall(arg) ==
    CallExpression(Identifier(SolidityFunction("type()")), <<arg>>, "type",
                   Absent, Absent, Absent)

Statement(e) ==
    \/ \E op \in IntOps, l \in IntOperands, r \in IntOperands :
            e = BinaryOperation(l, r, op)
    \/ \E op \in BoolOps \cup {"EQUAL"}, l \in BoolOperands, r \in BoolOperands :
            e = BinaryOperation(l, r, op)
    \/ \E op \in StepUnaryOps : e = UnaryOperation(Identifier(VarA), op)
    \/ \E op \in PlainUnaryOps, x \in IntOperands : e = UnaryOperation(x, op)
    \/ \E x \in BoolOperands : e = UnaryOperation(x, "BANG")
    \/ \E op \in AssignOps, r \in IntOperands :
            e = AssignmentOperation(Identifier(VarA), r, op)
    \/ \E op \in {"ASSIGN", "ASSIGN_ADDITION"}, r \in IntOperands :
            e = AssignmentOperation(Identifier(VarA),
                                    AssignmentOperation(Identifier(VarB), r, "ASSIGN"), op)
    \/ \E op \in {"ADDITION", "LESS_SIGNED", "RIGHT_SHIFT_ARITHMETIC"},
          l \in IntOperands, r \in IntOperands :
            e = AssignmentOperation(Identifier(VarA), BinaryOperation(l, r, op), "ASSIGN")
    \/ \E n \in 2..MaxTargets : \E kinds \in [1..n -> TargetKinds] :
            e = AssignmentOperation(Targets(kinds), TupleCall(n), "ASSIGN")
    \/ \E n \in 2..MaxTargets, m \in 2..MaxTargets, op \in {"ASSIGN", "ASSIGN_UNMAPPED"} :
          \E kinds \in [1..n -> {"var", "skip"}] :
            e = AssignmentOperation(Targets(kinds), LiteralTuple(m), op)
    \/ \E i \in 0..MaxTargets - 1 :
            e = AssignmentOperation(
                    Identifier(LocalVariableInitFromTuple("t", "uint256", i)),
                    TupleCall(MaxTargets), "ASSIGN")
    \/ \E args \in ArgLists, nret \in 0..1 :
            e = CallExpression(Identifier(Function("g", nret)), args, "uint256",
                               Absent, Absent, Absent)
    \/ \E m \in {"wrap", "unwrap"}, x \in IntOperands :
            \/ e = CallExpression(MemberAccess(Identifier(MyInt), m), <<x>>, "MyInt",
                                  Absent, Absent, Absent)
            \/ e = CallExpression(MemberAccess(MemberAccess(Identifier(ContractA), "MyInt"), m),
                                  <<x>>, "MyInt", Absent, Absent, Absent)
    \/ \E name \in YulNames :
            e = CallExpression(Identifier(SolidityFunction(name)),
                               IF name = "extcodesize(uint256)" THEN <<Identifier(VarX)>>
                               ELSE <<>>,
                               "uint256", Absent, Absent, Absent)
    \/ \E value \in Modifiers, gas \in Modifiers \cup IntLiterals, salt \in Modifiers,
          tc \in {"tuple(bool,bytes)", "bool"} :
            e = NewSyntaxCall(value, gas, salt, tc)
    \/ \E v \in {Identifier(MsgValue)} \cup IntOperands : e = OldSyntaxCall(v)
    \/ \E l \in IntOperands, r \in IntOperands :
            \/ e = ConditionalExpression(Identifier(VarFlag), l, r)
            \/ e = AssignmentOperation(Identifier(VarA),
                       ConditionalExpression(Identifier(VarFlag), l, r), "ASSIGN")
    \/ \E m \in {"balance", "code", "length"}, v \in {VarX, VarA} :
            e = MemberAccess(Identifier(v), m)
    \/ \E m \in {"min", "max"},
          t \in {ElementaryTypeNameExpression("uint8"), ElementaryTypeNameExpression("int8"),
                 Identifier(EnumE)} :
            e = MemberAccess(TypeOfCall(t), m)
    \/ \E m \in {"MyError", "f"} : e = MemberAccess(Identifier(ContractA), m)
    \/ \E x \in IntOperands, t \in {"uint8", "int256"} : e = TypeConversionExpression(x, t)
    \/ \E x \in IntOperands, y \in IntOperands :
            e = AssignmentOperation(Identifier(VarA), TupleExpression(<<x, y>>, TRUE),
                                    "ASSIGN")

\* ------------------------------------------------------------------- state
VARIABLES
    expression,            \* self._expression: the statement being lowered
    node_type,             \* node.type of the owning node
    generates_certik_ir,   \* node.compilation_unit.generates_certik_ir
    pos,                   \* index in Walk of the node whose rule runs next
    context,               \* the scratch store: expression.context[key] per node
    result,                \* self._result
    tmp, ref, tup,         \* the node's temporary / reference / tuple counters
    pc,                    \* visit | visited | constructed | returned | raised
    err,                   \* the exception that left the constructor, or "none"
    irs                    \* the list the caller got from result()

vars == <<expression, node_type, generates_certik_ir, pos, context, result,
          tmp, ref, tup, pc, err, irs>>

OwnerNode == "node"

Walk == PostOrder(expression, <<>>)

Path == Walk[pos]

Node == At(expression, Path)

S == [context |-> context, result |-> result, tmp |-> tmp, ref |-> ref, tup |-> tup,
      err |-> "none"]

Init ==
    /\ Statement(expression)
    /\ node_type \in {"RETURN", "EXPRESSION"}
    /\ generates_certik_ir \in BOOLEAN
    /\ pos = 1
    /\ context = EmptyContext
    /\ result = <<>>
    /\ tmp = 0 /\ ref = 0 /\ tup = 0
    /\ pc = "visit"
    /\ err = "none"
    /\ irs = <<>>

\* the walk is at a node of this kind
Visiting(kind) == pc = "visit" /\ Node.kind = kind

\* the state a rule leaves: an exception ends the walk (and the constructor)
Commit(s) ==
    /\ context' = s.context
    /\ result' = s.result
    /\ tmp' = s.tmp /\ ref' = s.ref /\ tup' = s.tup
    /\ err' = s.err
    /\ pc' = IF s.err # "none" THEN "raised"
             ELSE IF pos = Len(Walk) THEN "visited" ELSE "visit"
    /\ pos' = IF s.err # "none" THEN pos ELSE pos + 1
    /\ UNCHANGED <<expression, node_type, generates_certik_ir, irs>>

PostIdentifier == Visiting("Identifier") /\ Commit(_post_identifier(S, Node, Path))

PostLiteral == Visiting("Literal") /\ Commit(_post_literal(S, Node, Path))

PostElementaryTypeNameExpression ==
    /\ Visiting("ElementaryTypeNameExpression")
    /\ Commit(_post_elementary_type_name_expression(S, Node, Path))

PostAssignementOperation ==
    /\ Visiting("AssignmentOperation")
    /\ Commit(_post_assignement_operation(S, Node, Path))

PostBinaryOperation ==
    /\ Visiting("BinaryOperation")
    /\ Commit(_post_binary_operation(S, Node, Path, generates_certik_ir))

PostUnaryOperation ==
    /\ Visiting("UnaryOperation")
    /\ Commit(_post_unary_operation(S, Node, Path, generates_certik_ir))

PostCallExpression ==
    Visiting("CallExpression") /\ Commit(_post_call_expression(S, Node, Path))

PostMemberAccess == Visiting("MemberAccess") /\ Commit(_post_member_access(S, Node, Path))

PostTupleExpression ==
    Visiting("TupleExpression") /\ Commit(_post_tuple_expression(S, Node, Path))

PostTypeConversion ==
    Visiting("TypeConversion") /\ Commit(_post_type_conversion(S, Node, Path))

PostConditionalExpression ==
    /\ Visiting("ConditionalExpression")
    /\ Commit(_post_conditional_expression(S, Node, Path))

\* set_node run before the Return is appended
FinishReturnAfterSetNode(res, ntype, top) ==
    LET owned == [i \in 1..Len(res) |-> set_node(res[i], OwnerNode)]
    IN IF ntype = "RETURN" THEN Append(owned, Return(top, <<>>)) ELSE owned

\* the list the constructor leaves in self._result: the Return appended at a
\* return point, then set_node on every instruction
Finish(res, ntype, top) ==
    LET withReturn == IF ntype = "RETURN" THEN Append(res, Return(top, <<>>)) ELSE res
    IN [i \in 1..Len(withReturn) |-> set_node(withReturn[i], OwnerNode)]

\* ExpressionToSlithIR.__init__ after the walk
Construct ==
    /\ pc = "visited"
    /\ LET g == get(context, <<>>)
       IN IF node_type = "RETURN" /\ Raised(g.val)
          THEN /\ pc' = "raised" /\ err' = "KeyError"
               /\ UNCHANGED <<context, result>>
          ELSE /\ context' = IF node_type = "RETURN" THEN g.context ELSE context
               /\ result' = Finish(result, node_type, g.val)
               /\ pc' = "constructed"
               /\ err' = err
    /\ UNCHANGED <<expression, node_type, generates_certik_ir, pos, tmp, ref, tup, irs>>

\* ExpressionToSlithIR.result
Result ==
    /\ pc = "constructed"
    /\ irs' = result
    /\ pc' = "returned"
    /\ UNCHANGED <<expression, node_type, generates_certik_ir, pos, context, result,
                   tmp, ref, tup, err>>

Next ==
    \/ PostIdentifier
    \/ PostLiteral
    \/ PostElementaryTypeNameExpression
    \/ PostAssignementOperation
    \/ PostBinaryOperation
    \/ PostUnaryOperation
    \/ PostCallExpression
    \/ PostMemberAccess
    \/ PostTupleExpression
    \/ PostTypeConversion
    \/ PostConditionalExpression
    \/ Construct
    \/ Result

Spec == Init /\ [][Next]_vars

\* ====================================================================
\* Properties
\* ====================================================================
\* the instructions the step appends to self._result
NewIrs == SubSeq(result', Len(result) + 1, Len(result'))

\* the scratch value of the child of the current node in the given field
Operand(f) == context[Append(Path, Slot(f))]

\* _attempt_constant_folding is run and succeeds on the current node
FoldingApplied == generates_certik_ir /\ ConstantFolding(Node).t # "NotConstant"

Ops(irseq) == [i \in 1..Len(irseq) |-> irseq[i].op]

Count(irseq, op) == Cardinality({i \in 1..Len(irseq) : irseq[i].op = op})

\* the value an operand expression (identifier or literal) lowers to
Lowered(x) == IF x.kind = "Identifier" THEN x.value ELSE Constant(x.lit_value, x.type)

\* -------------------------------------------------------------------- C1
IsOldSyntaxCall(e) ==
    /\ e.kind = "CallExpression"
    /\ e.arguments = <<EmptyString>>
    /\ e.called.kind = "CallExpression"
    /\ e.called.called.kind = "MemberAccess"
    /\ e.called.called.member_name = "value"
    /\ Len(e.called.arguments) = 1

\* C1 as stated: lowering x.call.value(v)("") yields an Argument for "", a
\* TmpCall whose call_value is the lowered v, and no InternalCall
C1_Original ==
    (IsOldSyntaxCall(expression) /\ pc = "returned") =>
        /\ \E i \in 1..Len(irs) :
                irs[i].op = "Argument" /\ irs[i].argument = Constant("", "string")
        /\ \E i \in 1..Len(irs) :
                irs[i].op = "TmpCall"
                /\ irs[i].call_value = Lowered(expression.called.arguments[1])
        /\ \A i \in 1..Len(irs) : irs[i].op # "InternalCall"

\* C1 amended: lowering x.call.value(v)("") succeeds and yields, in order, an
\* Argument for v, the TmpCall of `.value` (one argument), an Argument for
\* "" and the TmpCall of the outer call, whose callee is the first TmpCall's
\* destination; call_value is unset (None) on every TmpCall (v travels as the
\* inner call's Argument), and there is no InternalCall
C1_OldSyntaxCallValueUnset ==
    IsOldSyntaxCall(expression) =>
        /\ err = "none"
        /\ pc = "returned" =>
            /\ \E i, j, k, l \in 1..Len(irs) :
                /\ i < j /\ j < k /\ k < l
                /\ irs[i].op = "Argument"
                /\ irs[i].argument = Lowered(expression.called.arguments[1])
                /\ irs[j].op = "TmpCall" /\ irs[j].nbr_arguments = 1
                /\ irs[k].op = "Argument" /\ irs[k].argument = Constant("", "string")
                /\ irs[l].op = "TmpCall" /\ irs[l].nbr_arguments = 1
                /\ irs[l].called = irs[j].lvalue
            /\ Count(irs, "TmpCall") = 2
            /\ Count(irs, "Argument") = 2
            /\ \A i \in 1..Len(irs) : irs[i].op = "TmpCall" => irs[i].call_value = None
            /\ \A i \in 1..Len(irs) : irs[i].op # "InternalCall"

C1_Witness ==
    /\ pc = "returned"
    /\ expression = OldSyntaxCall(Identifier(MsgValue))
    /\ Count(irs, "TmpCall") = 2
    /\ \A i \in 1..Len(irs) : irs[i].op = "TmpCall" => irs[i].call_value = None

\* -------------------------------------------------------------------- C2
\* C2 as stated: no scratch value is read twice (a second get raises
\* KeyError), and once the constructor has returned no node of the statement
\* holds a scratch entry
C2_Original ==
    /\ err # "KeyError"
    /\ pc \in {"constructed", "returned"} => DOMAIN context = {}

\* -------------------------------------------------------------------- C3
\* C3 as stated: when lowering raises, no instruction has the owning node
\* set, no list is returned, and no scratch entry of the statement remains
C3_Original ==
    pc = "raised" =>
        /\ \A i \in 1..Len(result) : result[i].node = "unset"
        /\ irs = <<>>
        /\ DOMAIN context = {}

\* -------------------------------------------------------------------- C4
IsDestructuring(e) ==
    /\ e.kind = "AssignmentOperation"
    /\ e.expression_left.kind = "TupleExpression"
    /\ ~e.expression_left.is_inline_array
    /\ Len(e.expression_left.expressions) >= 2
    /\ e.expression_right.kind = "CallExpression"
    /\ IsTupleTypeCall(e.expression_right.type_call)

Unpacks(irseq) == SelectSeq(irseq, LAMBDA ir : ir.op = "Unpack")

\* C4: a list of targets assigned from one Tuple value gets exactly one Unpack
\* per kept target, in target order, each selecting the target's slot
\* position in the full list (discarded slots count), from the call's Tuple;
\* nothing is emitted for a discarded slot
C4_UnpackSlotIndex ==
    IsDestructuring(expression) =>
        /\ err = "none"
        /\ pc = "returned" =>
            LET xs == expression.expression_left.expressions
                kept == PresentSlots("expressions", xs, 1)
                unpacks == Unpacks(irs)
            IN /\ Len(unpacks) = Len(kept)
               /\ \A j \in 1..Len(kept) :
                    /\ unpacks[j].lvalue = xs[kept[j][2]].value
                    /\ unpacks[j].index = kept[j][2] - 1
                    /\ unpacks[j].tuple = irs[1].lvalue
               /\ irs[1].op = "InternalCall" /\ irs[1].lvalue.k = "TupleVariable"
               /\ Len(irs) = 1 + Len(kept) + (IF node_type = "RETURN" THEN 1 ELSE 0)

C4_Witness ==
    /\ pc = "returned"
    /\ expression = AssignmentOperation(Targets(<<"var", "skip", "var">>), TupleCall(3),
                                        "ASSIGN")
    /\ Len(Unpacks(irs)) = 2
    /\ Unpacks(irs)[1].index = 0
    /\ Unpacks(irs)[2].index = 2

\* -------------------------------------------------------------------- C5
IsChained(e) ==
    /\ e.kind = "AssignmentOperation" /\ e.type = "ASSIGN"
    /\ e.expression_left = Identifier(VarA)
    /\ e.expression_right.kind = "AssignmentOperation"
    /\ e.expression_right.type = "ASSIGN"
    /\ e.expression_right.expression_left = Identifier(VarB)
    /\ e.expression_right.expression_right.kind = "Literal"

\* a plain assignment: neither side lowered to a list, and not the single
\* declared-from-tuple target of a Tuple value
IsPlainAssignmentStep ==
    /\ Visiting("AssignmentOperation")
    /\ Operand("expression_left").k \notin {"list", "LocalVariableInitFromTuple"}
    /\ Operand("expression_right").k # "list"
    /\ Node.type \in MappedAssignOps

\* C5: a = b = 1 lowers to exactly two Assignments, b := 1 then a := b, and
\* the value recorded for the whole expression is a; every plain assignment
\* records its left value as its result
C5_ChainedAssignment ==
    /\ [](IsChained(expression) =>
            /\ err = "none"
            /\ pc = "visited" =>
                /\ Len(result) = 2
                /\ result[1].op = "Assignment" /\ result[1].lvalue = VarB
                /\ result[1].rvalue = Lowered(expression.expression_right.expression_right)
                /\ result[2].op = "Assignment" /\ result[2].lvalue = VarA
                /\ result[2].rvalue = VarB
                /\ context[<<>>] = VarA)
    /\ [][IsPlainAssignmentStep =>
            /\ pc' # "raised"
            /\ context'[Path] = Operand("expression_left")]_vars

C5_Witness ==
    /\ pc = "visited"
    /\ expression = AssignmentOperation(Identifier(VarA),
            AssignmentOperation(Identifier(VarB), Literal("1", "uint256"), "ASSIGN"),
            "ASSIGN")
    /\ Len(result) = 2
    /\ context[<<>>] = VarA

\* -------------------------------------------------------------------- C6
SignedFour == {"DIVISION_SIGNED", "MODULO_SIGNED", "LESS_SIGNED", "GREATER_SIGNED"}

UnsignedEquivalent(op) ==
    CASE op = "DIVISION_SIGNED" -> "DIVISION"
      [] op = "MODULO_SIGNED" -> "MODULO"
      [] op = "LESS_SIGNED" -> "LESS"
      [] op = "GREATER_SIGNED" -> "GREATER"
      [] op = "RIGHT_SHIFT_ARITHMETIC" -> "RIGHT_SHIFT"

SignedOpcodes == SignedFour \cup {"RIGHT_SHIFT_ARITHMETIC"}

\* C6: with folding not applied, a signed divide / modulo / less / greater
\* emits exactly four instructions: left to int256, right to int256, the
\* unsigned Binary on the two converted temporaries, and the conversion of
\* its result to uint256 into the expression's value; no emitted Binary ever
\* carries a signed opcode
C6_SignedOperators ==
    /\ [][(Visiting("BinaryOperation") /\ Node.type \in SignedFour /\ ~FoldingApplied) =>
            LET new == NewIrs
            IN /\ pc' # "raised"
               /\ Len(new) = 4
               /\ new[1].op = "TypeConversion" /\ new[1].type = "int256"
               /\ new[1].variable = Operand("expression_left")
               /\ new[2].op = "TypeConversion" /\ new[2].type = "int256"
               /\ new[2].variable = Operand("expression_right")
               /\ new[1].lvalue.k = "TemporaryVariable"
               /\ new[2].lvalue.k = "TemporaryVariable"
               /\ new[1].lvalue # new[2].lvalue
               /\ new[3].op = "Binary" /\ new[3].type = UnsignedEquivalent(Node.type)
               /\ new[3].left = new[1].lvalue /\ new[3].right = new[2].lvalue
               /\ new[4].op = "TypeConversion" /\ new[4].type = "uint256"
               /\ new[4].variable = new[3].lvalue
               /\ context'[Path] = new[4].lvalue]_vars
    /\ [](\A i \in 1..Len(result) :
            result[i].op = "Binary" => result[i].type \notin SignedOpcodes)

C6_Witness ==
    /\ pc = "visited"
    /\ ~generates_certik_ir
    /\ expression = BinaryOperation(Identifier(VarA), Identifier(VarB), "LESS_SIGNED")
    /\ Ops(result) = <<"TypeConversion", "TypeConversion", "Binary", "TypeConversion">>

\* -------------------------------------------------------------------- C7
\* what C7 says of a step that lowers an arithmetic right shift: exactly one
\* conversion to int256, of the left operand, and an unsigned right shift of
\* the converted left temporary by the original lowered right value
SarLowering ==
    LET new == NewIrs
        toInt == {i \in 1..Len(new) : new[i].op = "TypeConversion" /\ new[i].type = "int256"}
    IN /\ pc' # "raised"
       /\ toInt = {1}
       /\ new[1].variable = Operand("expression_left")
       /\ \E i \in 1..Len(new) :
            /\ new[i].op = "Binary" /\ new[i].type = "RIGHT_SHIFT"
            /\ new[i].left = new[1].lvalue
            /\ new[i].right = Operand("expression_right")
       /\ Count(new, "Binary") = 1

IsSarStep == Visiting("BinaryOperation") /\ Node.type = "RIGHT_SHIFT_ARITHMETIC"

\* C7 as stated: every lowering of an arithmetic right shift converts the
\* left operand to int256, never the right one, and shifts the converted
\* left by the original right value
C7_Original == [][IsSarStep => SarLowering]_vars

\* C7 amended: the same, when constant folding is not applied to the
\* operation (extended-IR mode off, or an operand that is not a compile-time
\* constant); a folded shift emits no instruction at all
C7_ArithmeticRightShiftUnfolded == [][(IsSarStep /\ ~FoldingApplied) => SarLowering]_vars

C7_Witness ==
    /\ pc = "visited"
    /\ expression = BinaryOperation(Identifier(VarA), Identifier(VarB),
                                    "RIGHT_SHIFT_ARITHMETIC")
    /\ Ops(result) = <<"TypeConversion", "Binary", "TypeConversion">>
    /\ result[2].right = VarB

\* -------------------------------------------------------------------- C8
IsPostfix(op) == op \in {"PLUSPLUS_POST", "MINUSMINUS_POST"}

IsPrefix(op) == op \in {"PLUSPLUS_PRE", "MINUSMINUS_PRE"}

StepOpcode(op) ==
    IF op \in {"PLUSPLUS_PRE", "PLUSPLUS_POST"} THEN "ADDITION" ELSE "SUBTRACTION"

\* the in-place step x := x +/- 1
IsStepOf(ir, x, op) ==
    /\ ir.op = "Binary" /\ ir.type = StepOpcode(op)
    /\ ir.lvalue = x /\ ir.left = x
    /\ ir.right.k = "Constant" /\ ir.right.val = "1"

\* C8: with folding not applied, x++ / x-- emit the copy of x into a fresh
\* Temporary and then the in-place add / subtract of 1, and record the
\* Temporary; ++x / --x emit only the in-place step and record x
C8_IncrementDecrement ==
    [][(Visiting("UnaryOperation") /\ (IsPostfix(Node.type) \/ IsPrefix(Node.type))
            /\ ~FoldingApplied) =>
        LET new == NewIrs
            x == Operand("expression")
        IN /\ pc' # "raised"
           /\ IsPostfix(Node.type) =>
                /\ Len(new) = 2
                /\ new[1].op = "Assignment" /\ new[1].rvalue = x
                /\ new[1].lvalue = TemporaryVariable(tmp) /\ tmp' = tmp + 1
                /\ IsStepOf(new[2], x, Node.type)
                /\ context'[Path] = new[1].lvalue
           /\ IsPrefix(Node.type) =>
                /\ Len(new) = 1
                /\ IsStepOf(new[1], x, Node.type)
                /\ context'[Path] = x]_vars

C8_Witness ==
    /\ pc = "visited"
    /\ expression = UnaryOperation(Identifier(VarA), "PLUSPLUS_POST")
    /\ Ops(result) = <<"Assignment", "Binary">>
    /\ context[<<>>] = TemporaryVariable(0)

\* -------------------------------------------------------------------- C9
\* a binary or unary operation whose operands are literals
IsConstantOperation(e) ==
    \/ /\ e.kind = "BinaryOperation"
       /\ e.expression_left.kind = "Literal" /\ e.expression_right.kind = "Literal"
    \/ e.kind = "UnaryOperation" /\ e.expression.kind = "Literal"

EmptyLowering ==
    [context |-> EmptyContext, result |-> <<>>, tmp |-> 0, ref |-> 0, tup |-> 0,
     err |-> "none"]

\* the lowering of such an operation with the extended-IR mode disabled
LowerUnfolded(e) ==
    IF e.kind = "BinaryOperation"
    THEN _post_binary_operation(
            _post_literal(
                _post_literal(EmptyLowering, e.expression_left,
                              <<Slot("expression_left")>>),
                e.expression_right, <<Slot("expression_right")>>),
            e, <<>>, FALSE)
    ELSE _post_unary_operation(
            _post_literal(EmptyLowering, e.expression, <<Slot("expression")>>),
            e, <<>>, FALSE)

\* evaluation of the emitted instructions: the value of each Temporary
ValueOfConstant(c) ==
    IF c.type = "bool" THEN BoolVal(c.val = "true") ELSE IntVal(IntOfStr(c.val))

ReadValue(env, v) == IF v.k = "Constant" THEN ValueOfConstant(v) ELSE env[v.index]

\* a conversion to an integer type yields an integer (1 / 0 for a boolean)
ConvertValue(v, t) ==
    IF t \in {"int256", "uint256"} /\ v.t = "bool"
    THEN IntVal(IF v.b THEN 1 ELSE 0)
    ELSE v

Execute(env, ir) ==
    LET out == CASE ir.op = "TypeConversion" ->
                        ConvertValue(ReadValue(env, ir.variable), ir.type)
                 [] ir.op = "Binary" ->
                        FoldBinary(ir.type, ReadValue(env, ir.left), ReadValue(env, ir.right))
                 [] ir.op = "Unary" -> FoldUnary(ir.type, ReadValue(env, ir.rvalue))
    IN [i \in DOMAIN env \cup {ir.lvalue.index} |->
            IF i = ir.lvalue.index THEN out ELSE env[i]]

RECURSIVE Evaluate(_, _, _)
Evaluate(env, irseq, i) ==
    IF i > Len(irseq) THEN env ELSE Evaluate(Execute(env, irseq[i]), irseq, i + 1)

BooleanValued(op) ==
    op \in {"LESS", "GREATER", "LESS_EQUAL", "GREATER_EQUAL", "EQUAL", "NOT_EQUAL",
            "ANDAND", "OROR", "LESS_SIGNED", "GREATER_SIGNED", "BANG"}

\* C9 as stated: for an operation over compile-time constants, the Constant
\* recorded in extended-IR mode has the literal value that evaluating the
\* instructions of the unfolded lowering yields, and a type consistent with
\* the operator category (boolean for the boolean-valued operators, signed
\* comparisons included; numeric otherwise)
C9_Original ==
    (generates_certik_ir /\ pc = "visited" /\ IsConstantOperation(expression)) =>
        LET folded == context[<<>>]
            unfolded == LowerUnfolded(expression)
            value == ReadValue(Evaluate([i \in {} |-> NotConstant], unfolded.result, 1),
                               unfolded.context[<<>>])
        IN /\ folded.k = "Constant"
           /\ folded.val = Str(value)
           /\ BooleanValued(expression.type) <=> (folded.type = "bool")

\* ------------------------------------------------------------------- C10
\* the current node is T.wrap(x) / T.unwrap(x): a call with one argument
\* whose callee is that selector on a type alias
IsWrapStep(m) ==
    /\ Visiting("CallExpression")
    /\ Node.called.kind = "MemberAccess"
    /\ Node.called.member_name = m
    /\ Operand("called").k = "TypeAlias"
    /\ Len(Node.arguments) = 1 /\ Present(Node.arguments[1])

\* what both versions of C10 say of such a step, for the destination type t
WrapLowering(t) ==
    LET new == NewIrs
        convs == {i \in 1..Len(new) : new[i].op = "TypeConversion"}
    IN /\ pc' # "raised"
       /\ Cardinality(convs) = 1
       /\ \A i \in convs :
            /\ new[i].variable = context[Append(Path, <<"arguments", 1>>)]
            /\ new[i].type = t
            /\ new[i].lvalue.k = "TemporaryVariable"
            /\ new[i].lvalue.type = t
            /\ context'[Path] = new[i].lvalue
       /\ \A i \in 1..Len(new) : new[i].op \notin {"InternalCall", "TmpCall"}

\* C10 as stated: wrap converts to the alias's underlying type, unwrap to
\* the alias
C10_Original ==
    [][/\ IsWrapStep("wrap") => WrapLowering(Operand("called").underlying_type)
       /\ IsWrapStep("unwrap") => WrapLowering(Operand("called").name)]_vars

\* C10 amended: wrap emits a single TypeConversion of the argument whose
\* destination type is the alias, unwrap one whose destination type is the
\* alias's underlying type; no call instruction is emitted and the
\* conversion's destination Temporary is the call's value
C10_WrapUnwrap ==
    [][/\ IsWrapStep("wrap") => WrapLowering(Operand("called").name)
       /\ IsWrapStep("unwrap") => WrapLowering(Operand("called").underlying_type)]_vars

C10_Witness ==
    /\ pc = "visited"
    /\ expression = CallExpression(MemberAccess(Identifier(MyInt), "wrap"),
                                   <<Identifier(VarA)>>, "MyInt", Absent, Absent, Absent)
    /\ Ops(result) = <<"Argument", "TypeConversion">>
    /\ result[2].type = "MyInt"
    /\ context[<<>>] = result[2].lvalue

\* ------------------------------------------------------------------- C11
\* the current node is type(X).min / type(X).max with X an elementary type
\* name or an enum
IsTypeMinMaxStep ==
    /\ Visiting("MemberAccess")
    /\ IsTypeMinMax(Node)
    /\ Len(Node.expression.arguments) = 1
    /\ \/ Node.expression.arguments[1].kind = "ElementaryTypeNameExpression"
       \/ /\ Node.expression.arguments[1].kind = "Identifier"
          /\ Node.expression.arguments[1].value.k = "Enum"

\* X of the current type(X).min / type(X).max
TypeFound ==
    LET x == Node.expression.arguments[1]
    IN IF x.kind = "ElementaryTypeNameExpression" THEN ElementaryType(x.type) ELSE x.value

\* the minimum / maximum of X that the member names
ExpectedBound ==
    LET t == TypeFound
    IN IF Node.member_name = "min"
       THEN (IF t.k = "Enum" THEN "0" ELSE IF t.name = "int8" THEN "-128" ELSE "0")
       ELSE (IF t.k = "Enum" THEN ToString(t.values - 1)
             ELSE IF t.name = "int8" THEN "127" ELSE "255")

\* C11 as stated: the member-access rule appends no instruction for
\* type(X).min / type(X).max and records a Constant holding X's bound
C11_Original ==
    [][IsTypeMinMaxStep =>
        /\ pc' # "raised"
        /\ NewIrs = <<>>
        /\ context'[Path].k = "Constant"
        /\ context'[Path].val = ExpectedBound]_vars

\* C11 amended: the member-access rule appends exactly one instruction, an
\* Assignment of a Constant holding X's minimum or maximum into a fresh
\* Temporary, and the value it records for the node is that Temporary
C11_TypeMinMaxAssignment ==
    [][IsTypeMinMaxStep =>
        /\ pc' # "raised"
        /\ Len(NewIrs) = 1
        /\ NewIrs[1].op = "Assignment"
        /\ NewIrs[1].rvalue.k = "Constant"
        /\ NewIrs[1].rvalue.val = ExpectedBound
        /\ NewIrs[1].lvalue = TemporaryVariable(tmp)
        /\ tmp' = tmp + 1
        /\ context'[Path] = NewIrs[1].lvalue]_vars

C11_Witness ==
    /\ pc = "visited"
    /\ expression = MemberAccess(TypeOfCall(ElementaryTypeNameExpression("int8")), "min")
    /\ result[Len(result)].op = "Assignment"
    /\ result[Len(result)].rvalue = Constant("-128", "int8")
    /\ context[<<>>] = result[Len(result)].lvalue

\* ------------------------------------------------------------------- C12
\* an assignment of a value R to a plain target L: neither side lowered to
\* a list, and not the declared-from-tuple target of a Tuple value
IsPlainTargetStep ==
    /\ Visiting("AssignmentOperation")
    /\ Operand("expression_left").k # "list"
    /\ Operand("expression_right").k # "list"
    /\ ~(/\ Operand("expression_left").k = "LocalVariableInitFromTuple"
         /\ Operand("expression_right").k = "TupleVariable")

\* the opcode of each compound operator: |=, ^=, &=, <<=, >>=, +=, -=, *=, /=, %=
CompoundOpcode(t) ==
    CASE t = "ASSIGN_OR" -> "OR"
      [] t = "ASSIGN_CARET" -> "CARET"
      [] t = "ASSIGN_AND" -> "AND"
      [] t = "ASSIGN_LEFT_SHIFT" -> "LEFT_SHIFT"
      [] t = "ASSIGN_RIGHT_SHIFT" -> "RIGHT_SHIFT"
      [] t = "ASSIGN_ADDITION" -> "ADDITION"
      [] t = "ASSIGN_SUBTRACTION" -> "SUBTRACTION"
      [] t = "ASSIGN_MULTIPLICATION" -> "MULTIPLICATION"
      [] t = "ASSIGN_DIVISION" -> "DIVISION"
      [] t = "ASSIGN_MODULO" -> "MODULO"
      [] OTHER -> "none"

\* C12: on a plain target L and value R, `=` appends one Assignment of R
\* into L; each compound operator appends exactly one Binary with
\* destination L, left operand L, right operand R and the matching opcode;
\* any other operator type raises SlithIRError and nothing is appended for
\* the assignment
C12_CompoundOperatorTable ==
    /\ [][IsPlainTargetStep =>
            LET L == Operand("expression_left")
                R == Operand("expression_right")
                new == NewIrs
            IN IF Node.type = "ASSIGN" THEN
                    /\ pc' # "raised"
                    /\ Len(new) = 1
                    /\ new[1].op = "Assignment"
                    /\ new[1].lvalue = L /\ new[1].rvalue = R
               ELSE IF CompoundOpcode(Node.type) # "none" THEN
                    /\ pc' # "raised"
                    /\ Len(new) = 1
                    /\ new[1].op = "Binary"
                    /\ new[1].lvalue = L /\ new[1].left = L /\ new[1].right = R
                    /\ new[1].type = CompoundOpcode(Node.type)
               ELSE /\ pc' = "raised" /\ err' = "SlithIRError"
                    /\ new = <<>>]_vars
    /\ [][(Visiting("AssignmentOperation") /\ err' = "SlithIRError") =>
            /\ Node.type # "ASSIGN" /\ CompoundOpcode(Node.type) = "none"
            /\ NewIrs = <<>>]_vars

C12_Witness ==
    /\ pc = "raised" /\ err = "SlithIRError"
    /\ expression.kind = "AssignmentOperation"
    /\ expression.type = "ASSIGN_UNMAPPED"
    /\ expression.expression_left = Identifier(VarA)
    /\ result = <<>>

\* a compound operator has acted: a -= 1 lowered to one Binary
C12_WitnessCompound ==
    /\ pc = "visited"
    /\ expression = AssignmentOperation(Identifier(VarA), Identifier(VarB),
                                        "ASSIGN_SUBTRACTION")
    /\ result = <<Binary(VarA, VarA, VarB, "SUBTRACTION", <<>>)>>

\* ------------------------------------------------------------------- C13
\* the constructor's tail runs: the walk is over and the constructor ends
IsFinalization == pc = "visited" /\ pc' # "visited"

\* C13: at a return point the finished list holds exactly one Return, as its
\* last instruction, whose operand is the value recorded for the top-level
\* expression; elsewhere it holds no Return; the instructions lowered by
\* the rules are kept in order, every instruction of the list has the owning
\* node set, and result() hands out that list
C13_StatementFinalization ==
    /\ [][IsFinalization =>
            /\ pc' = "constructed"
            /\ IF node_type = "RETURN"
               THEN /\ Count(result', "Return") = 1
                    /\ Len(result') = Len(result) + 1
                    /\ result'[Len(result')].op = "Return"
                    /\ result'[Len(result')].values = context[<<>>]
               ELSE /\ Count(result', "Return") = 0
                    /\ Len(result') = Len(result)
            /\ \A i \in 1..Len(result) : result'[i] = set_node(result[i], OwnerNode)
            /\ \A i \in 1..Len(result') : result'[i].node = OwnerNode]_vars
    /\ [][pc' = "returned" => irs' = result]_vars

C13_Witness ==
    /\ pc = "returned"
    /\ node_type = "RETURN"
    /\ expression = BinaryOperation(Identifier(VarA), Identifier(VarB), "ADDITION")
    /\ Ops(irs) = <<"Binary", "Return">>
    /\ irs[2].values = irs[1].lvalue
    /\ \A i \in 1..Len(irs) : irs[i].node = OwnerNode

\* ------------------------------------------------------------------- C14
\* the callee of the current call is a wrap / unwrap selector on a type
\* alias applied to one argument
IsWrapCase ==
    /\ Operand("called").k = "TypeAlias"
    /\ Node.called.kind = "MemberAccess"
    /\ Node.called.member_name \in {"wrap", "unwrap"}
    /\ Len(PresentSlots("arguments", Node.arguments, 1)) = 1

\* the callee of the current call names one of the synthesized built-ins
IsPseudoFunctionCase ==
    NameOf(Operand("called")) \in
        {"caller()", "origin()", "extcodesize(uint256)", "selfbalance()", "address()",
         "callvalue()"}

\* C14: a call with n non-absent arguments appends exactly n Argument
\* instructions, in source order of the arguments and before any other
\* instruction of the call; an InternalCall or TmpCall it emits carries the
\* count n; a Function callee yields one InternalCall and no TmpCall, a
\* callee outside the internal, wrap/unwrap and pseudo-function cases yields
\* one TmpCall and no InternalCall
C14_ArgumentMarkers ==
    [][Visiting("CallExpression") =>
        LET slots == PresentSlots("arguments", Node.arguments, 1)
            n == Len(slots)
            new == NewIrs
        IN /\ pc' # "raised"
           /\ Len(new) > n
           /\ \A j \in 1..n :
                /\ new[j].op = "Argument"
                /\ new[j].argument = context[Append(Path, slots[j])]
           /\ \A j \in n + 1..Len(new) : new[j].op # "Argument"
           /\ \A j \in 1..Len(new) :
                new[j].op \in {"InternalCall", "TmpCall"} => new[j].nbr_arguments = n
           /\ Operand("called").k = "Function" =>
                Count(new, "InternalCall") = 1 /\ Count(new, "TmpCall") = 0
           /\ (Operand("called").k # "Function" /\ ~IsWrapCase /\ ~IsPseudoFunctionCase) =>
                Count(new, "TmpCall") = 1 /\ Count(new, "InternalCall") = 0]_vars

C14_Witness ==
    /\ pc = "visited"
    /\ expression = CallExpression(Identifier(Function("g", 1)),
                                   <<Identifier(VarA), Identifier(VarB)>>,
                                   "uint256", Absent, Absent, Absent)
    /\ Ops(result) = <<"Argument", "Argument", "InternalCall">>
    /\ result[1].argument = VarA /\ result[2].argument = VarB
    /\ result[3].nbr_arguments = 2

\* ------------------------------------------------------------------- C15
\* the nodes of the statement, and a node that is never written
StatementPaths == {Walk[i] : i \in 1..Len(Walk)}

NeverWritten == <<Slot("never_written")>>

\* C15: in every store the lowering reaches and for every node, get returns
\* the value last written by set_val and removes the entry (the other
\* entries stay), so a second get without a set_val in between raises
\* KeyError, as does a get on a node never written or already read, instead
\* of yielding a default; get_without_removing returns the value and the
\* entry is still there for a later get
C15_ScratchReadOnce ==
    \A p \in StatementPaths \cup {NeverWritten} :
        /\ p \in DOMAIN context =>
            LET g == get(context, p)
            IN /\ g.val = context[p]
               /\ DOMAIN g.context = DOMAIN context \ {p}
               /\ \A q \in DOMAIN g.context : g.context[q] = context[q]
               /\ get(g.context, p).val = KeyError
               /\ get_without_removing(g.context, p) = KeyError
               /\ get_without_removing(context, p) = context[p]
               /\ get(context, p).val = get_without_removing(context, p)
        /\ p \notin DOMAIN context =>
            /\ get(context, p).val = KeyError
            /\ get(context, p).context = context
            /\ get_without_removing(context, p) = KeyError
        /\ \A v \in {None, VarA} :
            LET written == set_val(context, p, v)
                g == get(written, p)
            IN /\ g.val = v
               /\ get_without_removing(written, p) = v
               /\ p \notin DOMAIN g.context
               /\ get(g.context, p).val = KeyError
               /\ get(set_val(g.context, p, VarB), p).val = VarB

\* a store with an entry written and not yet read (the statement's value)
\* and entries already read (its operands)
C15_Witness ==
    /\ pc = "visited"
    /\ expression = BinaryOperation(Identifier(VarA), Identifier(VarB), "ADDITION")
    /\ DOMAIN context = {<<>>}
    /\ get(context, <<>>).val = TemporaryVariable(0)
    /\ get(context, <<Slot("expression_left")>>).val = KeyError

\* ------------------------------------------------------------------- C16
\* the rule of a binary or unary operation runs in extended-IR mode
IsOperationStep ==
    /\ generates_certik_ir
    /\ Visiting("BinaryOperation") \/ Visiting("UnaryOperation")

\* the state the rule leaves with the mode disabled
NormalRule ==
    IF Node.kind = "BinaryOperation"
    THEN _post_binary_operation(S, Node, Path, FALSE)
    ELSE _post_unary_operation(S, Node, Path, FALSE)

\* the type of the recorded Constant, in the order of the claim: unsigned
\* integer for the signed operators, else boolean for a boolean value
\* (str(value) is True or False), else integer; a folded value of the
\* statements is a boolean or an integer
ExpectedFoldedType(optype, val) ==
    IF optype \in {"DIVISION_SIGNED", "MODULO_SIGNED", "LESS_SIGNED", "GREATER_SIGNED",
                   "RIGHT_SHIFT_ARITHMETIC"} THEN "uint"
    ELSE IF val \in {"True", "False"} THEN "bool"
    ELSE "int"

\* C16: in extended-IR mode, an operation over constants appends no
\* instruction, reads no operand and records a Constant whose type follows
\* that order; an operation whose operands are not constant gets nothing
\* recorded by folding: the normal rule runs, reads the operands' scratch
\* values and leaves what it leaves with the mode disabled
C16_ConstantFoldingResult ==
    [][IsOperationStep =>
        IF IsConstantOperation(Node)
        THEN /\ pc' # "raised"
             /\ NewIrs = <<>>
             /\ tmp' = tmp
             /\ Path \notin DOMAIN context
             /\ DOMAIN context' = DOMAIN context \cup {Path}
             /\ \A q \in DOMAIN context : context'[q] = context[q]
             /\ context'[Path].k = "Constant"
             /\ context'[Path].type = ExpectedFoldedType(Node.type, context'[Path].val)
        ELSE /\ pc' # "raised"
             /\ context' = NormalRule.context
             /\ result' = NormalRule.result
             /\ tmp' = NormalRule.tmp
             /\ context'[Path].k # "Constant"
             /\ \A q \in DOMAIN context : Len(q) = Len(Path) + 1 => q \notin DOMAIN context'
       ]_vars

\* a folded signed comparison: typed unsigned although its value is boolean
C16_Witness ==
    /\ pc = "visited"
    /\ generates_certik_ir
    /\ expression = BinaryOperation(Literal("1", "uint256"), Literal("2", "uint256"),
                                    "LESS_SIGNED")
    /\ result = <<>>
    /\ context[<<>>] = Constant("True", "uint")

====
